---------------------------- MODULE Spec2Model ----------------------------
(***************************************************************************)
(* Budget tracker: the in-memory mock store and request router             *)
(* (interceptors/in-memory.interceptor.ts), the per-entity query services  *)
(* the session state of AuthService, the routes and their access guard,    *)
(* the aggregation of the dashboard and the progress of a goal.            *)
(*                                                                         *)
(* A record is a function from field names to values, so that "field       *)
(* present" and "field absent" are distinguishable (object spread).        *)
(* A date is a tuple <<year, month, day>>; an e-mail address is a sequence *)
(* of one-character strings, so that toLowerCase and trim are computed.    *)
(***************************************************************************)
EXTENDS Integers, Sequences, FiniteSets, TLC

VARIABLES
    db,           \* the five module-level arrays: collection name -> Seq(record)
    created,      \* history: collection name -> ids handed out by POST, in order
    nreq,         \* number of operations performed so far (bounds the run)
    last,         \* the last operation: its inputs and what it returned
    currentUser,  \* AuthService.currentUserSubject.value (a user record or Null)
    localStorage, \* localStorage['currentUser'] (a serialized user or NoEntry)
    router,       \* the Router: the URL of the view shown and its returnUrl
    view,         \* the fields of the DashboardComponent instance
    crud          \* the fields of the CRUD view component that is mounted

vars ==
    <<db, created, nreq, last, currentUser, localStorage, router, view, crud>>

-----------------------------------------------------------------------------
(* Bounds of the model *)

MaxReq == 2       \* operations per run under Spec
MaxId == 2        \* id segments 0..MaxId appear in request URLs
MaxIdReq == 3     \* operations per run under SpecIds
MaxAuthOps == 3   \* operations per run under SpecAuth

-----------------------------------------------------------------------------
(* Values *)

NoId == -1          \* `null`: the URL has no id segment
NoParam == -1       \* URLSearchParams.get returned null
Null == [null |-> TRUE]
NoEntry == [entry |-> FALSE]
NoUrl == "none"     \* no view entered yet; no returnUrl query parameter
NoView == [url |-> NoUrl, returnUrl |-> NoUrl]
NoComponent == [entity |-> "none"]   \* no CRUD view has been entered

\* DashboardComponent as constructed: its field initialisers. `state`,
\* `pending`, `results` and `order` describe the combineLatest subscription.
newDashboard ==
    [state |-> "idle", isLoading |-> FALSE, userId |-> NoId, now |-> <<>>,
     pending |-> {}, results |-> <<>>, order |-> <<>>,
     totalIncome |-> 0, totalExpenses |-> 0, savings |-> 0,
     totalGoals |-> 0, goalsProgress |-> <<0, 1>>,
     pieChartData |-> [labels |-> <<>>, datasets |-> <<[data |-> <<>>]>>],
     barChartData |-> [labels |-> <<>>, datasets |-> <<>>],
     lineChartData |-> [labels |-> <<>>, datasets |-> <<>>]]

Collections == {"users", "expenses", "incomes", "budgets", "goals"}
Paths == Collections \cup {"reports"}   \* "reports" is not a collection
UserIds == {1, 2}

Max(S) == CHOOSE m \in S : \A x \in S : x <= m

Has(r, f) == f \in DOMAIN r

demoEmail ==
    <<"d","e","m","o","@","e","x","a","m","p","l","e",".","c","o","m">>

seedUsers == <<
    [id |-> 1, email |-> demoEmail, password |-> "demo123",
     firstName |-> "Demo", lastName |-> "User", createdAt |-> <<2024, 1, 1>>] >>

seedExpenses == <<
    [id |-> 1, userId |-> 1, amount |-> 1200, category |-> "Housing",
     date |-> <<2024, 1, 5>>, isRecurring |-> TRUE, recurringFrequency |-> "monthly"],
    [id |-> 2, userId |-> 1, amount |-> 150, category |-> "Food",
     date |-> <<2024, 1, 10>>, isRecurring |-> FALSE],
    [id |-> 3, userId |-> 1, amount |-> 80, category |-> "Transportation",
     date |-> <<2024, 1, 15>>, isRecurring |-> FALSE],
    [id |-> 4, userId |-> 1, amount |-> 200, category |-> "Food",
     date |-> <<2024, 1, 20>>, isRecurring |-> FALSE],
    [id |-> 5, userId |-> 1, amount |-> 100, category |-> "Entertainment",
     date |-> <<2024, 1, 25>>, isRecurring |-> FALSE] >>

seedIncomes == <<
    [id |-> 1, userId |-> 1, amount |-> 5000, source |-> "Salary",
     date |-> <<2024, 1, 1>>],
    [id |-> 2, userId |-> 1, amount |-> 500, source |-> "Freelance",
     date |-> <<2024, 1, 15>>] >>

seedBudgets == <<
    [id |-> 1, userId |-> 1, month |-> 1, year |-> 2024, totalIncome |-> 5500,
     categories |-> << [category |-> "Housing", limit |-> 1200],
                       [category |-> "Food", limit |-> 400],
                       [category |-> "Transportation", limit |-> 200],
                       [category |-> "Entertainment", limit |-> 150],
                       [category |-> "Utilities", limit |-> 150],
                       [category |-> "Savings", limit |-> 3000] >>,
     createdAt |-> <<2024, 1, 1>>] >>

seedGoals == <<
    [id |-> 1, userId |-> 1, title |-> "Emergency Fund", targetAmount |-> 10000,
     currentAmount |-> 2500, targetDate |-> <<2024, 12, 31>>,
     createdAt |-> <<2024, 1, 1>>],
    [id |-> 2, userId |-> 1, title |-> "Vacation to Europe", targetAmount |-> 5000,
     currentAmount |-> 1200, targetDate |-> <<2024, 6, 30>>,
     createdAt |-> <<2024, 1, 1>>] >>

seedDb ==
    [c \in Collections |->
        CASE c = "users"    -> seedUsers
          [] c = "expenses" -> seedExpenses
          [] c = "incomes"  -> seedIncomes
          [] c = "budgets"  -> seedBudgets
          [] c = "goals"    -> seedGoals]

-----------------------------------------------------------------------------
(* The request router *)

\* { ...b, ...a }: the stored value wins
SpreadKeepsStored(a, b) ==
    [f \in (DOMAIN a) \cup (DOMAIN b) |-> IF f \in DOMAIN a THEN a[f] ELSE b[f]]

\* { ...a, ...b }
Spread(a, b) ==
    [f \in (DOMAIN a) \cup (DOMAIN b) |-> IF f \in DOMAIN b THEN b[f] ELSE a[f]]

Ids(collection) == {collection[k].id : k \in 1..Len(collection)}

getNextId(collection) ==
    IF Len(collection) > 0 THEN Max(Ids(collection)) + 1 ELSE 1

\* Array.prototype.findIndex; 0 stands for -1 (sequences are 1-based)
findIndex(collection, id) ==
    IF \E k \in 1..Len(collection) : collection[k].id = id
    THEN CHOOSE k \in 1..Len(collection) :
            /\ collection[k].id = id
            /\ \A j \in 1..(k-1) : collection[j].id # id
    ELSE 0

\* data.filter(e => e.userId === parseInt(userId))
filterByUserId(collection, userId) ==
    LET F[k \in 0..Len(collection)] ==
            IF k = 0 THEN <<>>
            ELSE IF Has(collection[k], "userId") /\ collection[k].userId = userId
                 THEN Append(F[k-1], collection[k])
                 ELSE F[k-1]
    IN F[Len(collection)]

splice(collection, index) ==
    [k \in 1..(Len(collection) - 1) |->
        IF k < index THEN collection[k] ELSE collection[k+1]]

\* `if (id)`: null and 0 are both falsy
Truthy(id) == id # NoId /\ id # 0

Response(status, shape, body) ==
    [kind |-> "response", status |-> status, shape |-> shape, body |-> body]

NotFound == Response(404, "error", [error |-> "Not found"])

PassThrough ==
    [kind |-> "next", status |-> 0, shape |-> "none", body |-> <<>>]

\* The interceptor reads req.url only; HttpParams given to HttpClient are kept
\* in req.params and do not appear in req.url.
Request(method, path, id, urlUserId, params, body) ==
    [method |-> method, path |-> path, id |-> id, urlUserId |-> urlUserId,
     params |-> params, body |-> body]

\* GET that answers an unknown collection with an empty list
handleGetUnknownAsEmpty(d, req) ==
    IF req.path \notin Collections THEN Response(200, "list", <<>>)
    ELSE
        LET data ==
                IF req.path # "users" /\ req.urlUserId # NoParam
                THEN filterByUserId(d[req.path], req.urlUserId)
                ELSE d[req.path]
            index == findIndex(data, req.id)
        IN  IF Truthy(req.id)
            THEN IF index # 0 THEN Response(200, "item", data[index])
                 ELSE NotFound
            ELSE Response(200, "list", data)

\* GET: the switch on the collection, then the id test
handleGet(d, req) ==
    IF req.path \notin Collections THEN PassThrough
    ELSE
        LET data ==
                IF req.path # "users" /\ req.urlUserId # NoParam
                THEN filterByUserId(d[req.path], req.urlUserId)
                ELSE d[req.path]
            index == findIndex(data, req.id)
        IN  IF Truthy(req.id)
            THEN IF index # 0 THEN Response(200, "item", data[index])
                 ELSE NotFound
            ELSE Response(200, "list", data)

\* { id: getNextId(...), ...req.body }: an id in the body wins
newItemKeepsBodyId(d, req) ==
    [f \in (DOMAIN req.body) \cup {"id"} |->
        IF f \in DOMAIN req.body THEN req.body[f] ELSE getNextId(d[req.path])]

\* POST: newItem = { ...req.body, id: 0 }, then newItem.id = getNextId(...)
newItemOf(d, req) ==
    [Spread(req.body, [id |-> 0]) EXCEPT !.id = getNextId(d[req.path])]

postDb(d, req) ==
    IF req.path \in Collections
    THEN [d EXCEPT ![req.path] = Append(@, newItemOf(d, req))]
    ELSE d

handlePost(d, req) ==
    IF req.path \in Collections
    THEN Response(201, "item", newItemOf(d, req))
    ELSE PassThrough

\* PUT: collectionData[index] = { ...collectionData[index], ...req.body }
putDb(d, req) ==
    IF Truthy(req.id) /\ req.path \in Collections
       /\ findIndex(d[req.path], req.id) # 0
    THEN LET index == findIndex(d[req.path], req.id)
         IN [d EXCEPT ![req.path][index] = Spread(@, req.body)]
    ELSE d

handlePut(d, req) ==
    IF Truthy(req.id) /\ req.path \in Collections
    THEN LET index == findIndex(d[req.path], req.id)
         IN IF index # 0
            THEN Response(200, "item", putDb(d, req)[req.path][index])
            ELSE NotFound
    ELSE PassThrough

\* DELETE: collectionData.splice(index, 1)
deleteDb(d, req) ==
    IF Truthy(req.id) /\ req.path \in Collections
       /\ findIndex(d[req.path], req.id) # 0
    THEN [d EXCEPT ![req.path] = splice(@, findIndex(d[req.path], req.id))]
    ELSE d

handleDelete(d, req) ==
    IF Truthy(req.id) /\ req.path \in Collections
    THEN IF findIndex(d[req.path], req.id) # 0
         THEN Response(200, "empty", <<>>)
         ELSE NotFound
    ELSE PassThrough

\* inMemoryInterceptor: what it returns, and the store it leaves
respond(d, req) ==
    CASE req.method = "GET"    -> handleGet(d, req)
      [] req.method = "POST"   -> handlePost(d, req)
      [] req.method = "PUT"    -> handlePut(d, req)
      [] req.method = "DELETE" -> handleDelete(d, req)

storeAfter(d, req) ==
    CASE req.method = "GET"    -> d
      [] req.method = "POST"   -> postDb(d, req)
      [] req.method = "PUT"    -> putDb(d, req)
      [] req.method = "DELETE" -> deleteDb(d, req)

createdAfter(cr, d, req) ==
    IF req.method = "POST" /\ req.path \in Collections
    THEN [cr EXCEPT ![req.path] = Append(@, getNextId(d[req.path]))]
    ELSE cr


-----------------------------------------------------------------------------
(* The query services: list by user *)

InvalidDate == <<>>

\* new Date(v): a copy of a Date; Invalid Date for undefined
NewDate(r, f) == IF Has(r, f) THEN r[f] ELSE InvalidDate

\* { ...rec, <f>: new Date(rec.<f>) } for each date field the service names
normalizeDates(rec, fields) ==
    [f \in (DOMAIN rec) \cup fields |->
        IF f \in fields THEN NewDate(rec, f) ELSE rec[f]]

serviceDateFields(path) ==
    CASE path = "expenses" -> {"date"}
      [] path = "incomes"  -> {"date"}
      [] path = "budgets"  -> {"createdAt"}
      [] path = "goals"    -> {"targetDate", "createdAt"}

\* new HttpParams().set('userId', ...); http.get(apiUrl, { params })
listRequest(path, userId) == Request("GET", path, NoId, NoParam, userId, <<>>)

\* getExpenses / getIncomes / getBudgets / getGoals: the mapped response body
listByUser(d, path, userId) ==
    LET body == respond(d, listRequest(path, userId)).body
    IN  [k \in 1..Len(body) |-> normalizeDates(body[k], serviceDateFields(path))]

-----------------------------------------------------------------------------
(* Requests the model sends *)

Bodies ==
    { [userId |-> 2, amount |-> 75],
      [id |-> 2, amount |-> 20] }

UrlIds == 0..MaxId

GetRequests ==
    {Request("GET", p, i, NoParam, NoParam, <<>>) : p \in Paths, i \in UrlIds}
    \cup {Request("GET", p, NoId, u, NoParam, <<>>) :
            p \in Paths, u \in UserIds \cup {NoParam}}

PostRequests ==
    {Request("POST", p, NoId, NoParam, NoParam, b) : p \in Paths, b \in Bodies}

PutRequests ==
    {Request("PUT", p, i, NoParam, NoParam, b) :
        p \in Paths, i \in UrlIds \cup {NoId}, b \in Bodies}

DeleteRequests ==
    {Request("DELETE", p, i, NoParam, NoParam, <<>>) :
        p \in Paths, i \in UrlIds \cup {NoId}}

-----------------------------------------------------------------------------
(* Actions *)

NoOp == [op |-> "none"]

Init ==
    /\ db = seedDb
    /\ created = [c \in Collections |-> <<>>]
    /\ nreq = 0
    /\ last = NoOp
    /\ currentUser = Null
    /\ localStorage = NoEntry
    /\ router = NoView
    /\ view = newDashboard
    /\ crud = NoComponent

\* One intercepted request, whatever its verb
Send(req) ==
    /\ db' = storeAfter(db, req)
    /\ created' = createdAfter(created, db, req)
    /\ nreq' = nreq + 1
    /\ last' = [op |-> "http", req |-> req, res |-> respond(db, req)]
    /\ UNCHANGED <<currentUser, localStorage, router, view, crud>>

Get == nreq < MaxReq /\ \E req \in GetRequests : Send(req)

Post == nreq < MaxReq /\ \E req \in PostRequests : Send(req)

Put == nreq < MaxReq /\ \E req \in PutRequests : Send(req)

Delete == nreq < MaxReq /\ \E req \in DeleteRequests : Send(req)

List(op, path, userId) ==
    /\ nreq' = nreq + 1
    /\ last' = [op |-> op, path |-> path, userId |-> userId,
                req |-> listRequest(path, userId),
                out |-> listByUser(db, path, userId)]
    /\ UNCHANGED <<db, created, currentUser, localStorage, router, view, crud>>

getExpenses ==
    nreq < MaxReq /\ \E u \in UserIds : List("getExpenses", "expenses", u)

getIncomes ==
    nreq < MaxReq /\ \E u \in UserIds : List("getIncomes", "incomes", u)

getBudgets ==
    nreq < MaxReq /\ \E u \in UserIds : List("getBudgets", "budgets", u)

getGoals ==
    nreq < MaxReq /\ \E u \in UserIds : List("getGoals", "goals", u)

Categories == {"Food", "Housing", "Travel"}

\* new HttpParams().set('userId', ...).set('category', category)
categoryRequest(userId, category) ==
    Request("GET", "expenses", NoId, NoParam,
            [userId |-> userId, category |-> category], <<>>)

\* getExpensesByCategory: the mapped response body
expensesByCategory(d, userId, category) ==
    LET body == respond(d, categoryRequest(userId, category)).body
    IN  [k \in 1..Len(body) |-> normalizeDates(body[k], {"date"})]

getExpensesByCategory ==
    /\ nreq < MaxReq
    /\ \E u \in UserIds, category \in Categories :
          last' = [op |-> "getExpensesByCategory", path |-> "expenses",
                   userId |-> u, category |-> category,
                   req |-> categoryRequest(u, category),
                   out |-> expensesByCategory(db, u, category)]
    /\ nreq' = nreq + 1
    /\ UNCHANGED <<db, created, currentUser, localStorage, router, view, crud>>

Next ==
    \/ Get \/ Post \/ Put \/ Delete
    \/ getExpenses \/ getIncomes \/ getBudgets \/ getGoals
    \/ getExpensesByCategory

Spec == Init /\ [][Next]_vars

-----------------------------------------------------------------------------
(* Id assignment over longer runs: creates, updates and deletes on the two  *)
(* collections seeded with a single record                                  *)

IdPaths == {"users", "budgets"}

IdRequests ==
    {Request("POST", p, NoId, NoParam, NoParam, [userId |-> 1]) : p \in IdPaths}
    \cup {Request("PUT", p, i, NoParam, NoParam, [amount |-> 20]) :
            p \in IdPaths, i \in 1..MaxId}
    \cup {Request("DELETE", p, i, NoParam, NoParam, <<>>) :
            p \in IdPaths, i \in 1..MaxId}

PostId ==
    /\ nreq < MaxIdReq
    /\ \E req \in IdRequests : req.method = "POST" /\ Send(req)

PutId ==
    /\ nreq < MaxIdReq
    /\ \E req \in IdRequests : req.method = "PUT" /\ Send(req)

DeleteId ==
    /\ nreq < MaxIdReq
    /\ \E req \in IdRequests : req.method = "DELETE" /\ Send(req)

NextIds == PostId \/ PutId \/ DeleteId

SpecIds == Init /\ [][NextIds]_vars

-----------------------------------------------------------------------------
(* Session state: AuthService *)

UpperCase == <<"A","B","C","D","E","F","G","H","I","J","K","L","M",
               "N","O","P","Q","R","S","T","U","V","W","X","Y","Z">>
LowerCase == <<"a","b","c","d","e","f","g","h","i","j","k","l","m",
               "n","o","p","q","r","s","t","u","v","w","x","y","z">>

toLowerCase(str) ==
    [k \in 1..Len(str) |->
        IF \E i \in 1..26 : UpperCase[i] = str[k]
        THEN LowerCase[CHOOSE i \in 1..26 : UpperCase[i] = str[k]]
        ELSE str[k]]

\* String.prototype.trim: white space off both ends
trim(str) ==
    LET inner == {k \in 1..Len(str) : str[k] # " "}
    IN  IF inner = {} THEN <<>>
        ELSE LET lo == CHOOSE k \in inner : \A j \in inner : k <= j
             IN  SubSeq(str, lo, Max(inner))

\* u.email && u.email.toLowerCase().trim() === emailLower
emailMatches(u, emailLower) ==
    /\ Has(u, "email")
    /\ u.email # <<>>
    /\ trim(toLowerCase(u.email)) = emailLower

\* Array.prototype.find over the positions that pass: the first element, or Null
firstOf(collection, passing) ==
    IF passing = {} THEN Null
    ELSE collection[CHOOSE k \in passing : \A j \in passing : k <= j]

\* http.get<User[]>(apiUrl).pipe(catchError(() => of([])))
fetchUsers(d, fetchOk) ==
    IF fetchOk
    THEN respond(d, Request("GET", "users", NoId, NoParam, NoParam, <<>>)).body
    ELSE <<>>

DateFields == {"createdAt", "date", "targetDate"}

\* JSON.stringify: a Date is written as its ISO string
stringify(u) ==
    [f \in DOMAIN u |-> IF f \in DateFields THEN [iso |-> u[f]] ELSE u[f]]

\* login that does not compare the password
loginUserAnyPassword(users, email, password) ==
    LET emailLower == trim(toLowerCase(email))
    IN  firstOf(users, {k \in 1..Len(users) : emailMatches(users[k], emailLower)})

\* login: the user found among the fetched users, or Null
loginUser(users, email, password) ==
    LET emailLower == trim(toLowerCase(email))
    IN  firstOf(users, {k \in 1..Len(users) :
                            /\ emailMatches(users[k], emailLower)
                            /\ Has(users[k], "password")
                            /\ users[k].password = password})

\* register that compares the e-mail addresses as written
emailExistsAsWritten(users, email) ==
    \E k \in 1..Len(users) :
        Has(users[k], "email") /\ users[k].email # <<>> /\ users[k].email = email

\* register: some(u => u.email && ... === emailLower)
emailExists(users, email) ==
    LET emailLower == trim(toLowerCase(email))
    IN  \E k \in 1..Len(users) : emailMatches(users[k], emailLower)

Now == <<2024, 2, 1>>   \* new Date() at the time of the registration

registerRequest(userData) ==
    Request("POST", "users", NoId, NoParam, NoParam,
            [email |-> userData.email, password |-> userData.password,
             firstName |-> userData.firstName, lastName |-> userData.lastName,
             createdAt |-> Now])

DuplicateEmail == [error |-> "A user with this email already exists"]

paddedDemoEmail == <<" ">> \o demoEmail \o <<" ">>
upperDemoEmail ==
    <<"D","e","m","o","@","E","x","a","m","p","l","e",".","c","o","m">>

Emails ==
    {demoEmail, upperDemoEmail, paddedDemoEmail, <<"a","@","b">>, <<>>, <<" ">>}

Passwords == {"demo123", "Demo123"}

\* what login publishes: setCurrentUser(user), or currentUserSubject.next(null)
publishedKeepsOnFailure(user, published) ==
    IF user # Null THEN user ELSE published

publishedAfterLogin(user, published) ==
    IF user # Null THEN user ELSE Null

\* what login leaves in local storage: written by setCurrentUser only
storedAfterLogin(user, stored) ==
    IF user # Null THEN stringify(user) ELSE stored

\* login(email, password), subscribed
Login(email, password, fetchOk) ==
    LET user == loginUser(fetchUsers(db, fetchOk), email, password)
    IN  /\ currentUser' = publishedAfterLogin(user, currentUser)
        /\ localStorage' = storedAfterLogin(user, localStorage)
        /\ last' = [op |-> "login", email |-> email, password |-> password,
                    sessionBefore |-> currentUser, fetchOk |-> fetchOk,
                    out |-> user]
        /\ nreq' = nreq + 1
        /\ UNCHANGED <<db, created, view, crud>>

\* register(userData), subscribed
Register(userData, fetchOk) ==
    LET exists == emailExists(fetchUsers(db, fetchOk), userData.email)
        req == registerRequest(userData)
    IN  /\ IF exists
           THEN /\ last' = [op |-> "register", userData |-> userData,
                            fetchOk |-> fetchOk,
                            failed |-> TRUE, out |-> DuplicateEmail]
                /\ UNCHANGED <<db, created>>
           ELSE /\ last' = [op |-> "register", userData |-> userData,
                            fetchOk |-> fetchOk,
                            failed |-> FALSE, out |-> respond(db, req).body]
                /\ db' = storeAfter(db, req)
                /\ created' = createdAfter(created, db, req)
        /\ nreq' = nreq + 1
        /\ UNCHANGED <<currentUser, localStorage, router, view, crud>>

login ==
    /\ nreq < MaxAuthOps
    /\ \E email \in Emails, password \in Passwords : Login(email, password, TRUE)
    /\ UNCHANGED router

register ==
    /\ nreq < MaxAuthOps
    /\ \E email \in Emails, password \in Passwords :
          Register([email |-> email, password |-> password,
                    firstName |-> "New", lastName |-> "User"], TRUE)

\* logout that leaves the persisted entry in place
storedKeptAtLogout(stored) == stored

\* localStorage.removeItem('currentUser')
storedAfterLogout(stored) == NoEntry

\* logout()
Logout ==
    /\ localStorage' = storedAfterLogout(localStorage)
    /\ currentUser' = Null
    /\ last' = [op |-> "logout", sessionBefore |-> currentUser,
                storedBefore |-> localStorage]
    /\ nreq' = nreq + 1
    /\ UNCHANGED <<db, created, view, crud>>

logout ==
    /\ nreq < MaxAuthOps
    /\ Logout
    /\ UNCHANGED router

NextAuth == login \/ register \/ logout

SpecAuth == Init /\ [][NextAuth]_vars

-----------------------------------------------------------------------------
(* The services over a transport that may fail: HttpClient delivers either  *)
(* the response of the router or an error notification                      *)

MaxFaultOps == 2   \* operations per run under SpecFault

HttpError == [error |-> "HttpErrorResponse"]

\* what an Observable delivers to its subscriber: one value, or an error
Delivered(kind, value) == [kind |-> kind, value |-> value]

\* http.get(apiUrl, { params }).pipe(map(...)): map lets an error through
listDelivered(d, path, userId, transportOk) ==
    IF transportOk
    THEN Delivered("next", listByUser(d, path, userId))
    ELSE Delivered("error", HttpError)

ListOver(op, path, userId, transportOk) ==
    /\ nreq' = nreq + 1
    /\ last' = [op |-> op, path |-> path, userId |-> userId,
                transportOk |-> transportOk,
                delivered |-> listDelivered(db, path, userId, transportOk)]
    /\ UNCHANGED <<db, created, currentUser, localStorage, router, view, crud>>

getExpensesOver ==
    /\ nreq < MaxFaultOps
    /\ \E u \in UserIds, ok \in BOOLEAN : ListOver("getExpenses", "expenses", u, ok)

getIncomesOver ==
    /\ nreq < MaxFaultOps
    /\ \E u \in UserIds, ok \in BOOLEAN : ListOver("getIncomes", "incomes", u, ok)

getBudgetsOver ==
    /\ nreq < MaxFaultOps
    /\ \E u \in UserIds, ok \in BOOLEAN : ListOver("getBudgets", "budgets", u, ok)

getGoalsOver ==
    /\ nreq < MaxFaultOps
    /\ \E u \in UserIds, ok \in BOOLEAN : ListOver("getGoals", "goals", u, ok)

loginOver ==
    /\ nreq < MaxFaultOps
    /\ \E email \in Emails, password \in Passwords, ok \in BOOLEAN :
          Login(email, password, ok)
    /\ UNCHANGED router

registerOver ==
    /\ nreq < MaxFaultOps
    /\ \E email \in Emails, password \in Passwords, ok \in BOOLEAN :
          Register([email |-> email, password |-> password,
                    firstName |-> "New", lastName |-> "User"], ok)

NextFault ==
    \/ getExpensesOver \/ getIncomesOver \/ getBudgetsOver \/ getGoalsOver
    \/ loginOver \/ registerOver

SpecFault == Init /\ [][NextFault]_vars

-----------------------------------------------------------------------------
(* Navigation: the routes, the access guard, the login form and the nav bar *)

MaxNavOps == 4   \* operations per run under SpecNav

ProtectedUrls ==
    {"/dashboard", "/expenses", "/income", "/budgets", "/goals", "/reports"}

PublicUrls == {"/login", "/register"}

Urls == ProtectedUrls \cup PublicUrls \cup {"/", "/nowhere"}

\* routes: path '' and the wildcard '**' redirect to /dashboard
resolve(url) ==
    IF url \in ProtectedUrls \cup PublicUrls THEN url ELSE "/dashboard"

\* a route table in which /reports carries no guard
routeGuardedButReports(url) == url \in ProtectedUrls \ {"/reports"}

\* canActivate: [authGuard]
routeGuarded(url) == url \in ProtectedUrls

\* AuthService.isLoggedIn
isLoggedIn(user) == user # Null

\* router.navigate([url]): the view shown once guards and redirects have run.
\* authGuard returns true for a published session; otherwise it navigates to
\* /login with queryParams { returnUrl: state.url } and returns false.
routerAfter(user, url) ==
    LET target == resolve(url)
    IN  IF routeGuarded(target) /\ ~isLoggedIn(user)
        THEN [url |-> "/login", returnUrl |-> target]
        ELSE [url |-> target, returnUrl |-> NoUrl]

\* JSON.parse of the persisted entry: dates stay ISO strings
loadUserFromStorage(stored) == IF stored # NoEntry THEN stored ELSE Null

\* Validators.required, Validators.email: not empty, no white space, one "@"
\* with a local part before it and a domain after it
validEmail(email) ==
    /\ Len(email) > 0
    /\ \A k \in 1..Len(email) : email[k] # " "
    /\ Cardinality({k \in 1..Len(email) : email[k] = "@"}) = 1
    /\ email[1] # "@"
    /\ email[Len(email)] # "@"

FormPasswords == Passwords \cup {"demo"}

passwordLength(password) == IF password = "demo" THEN 4 ELSE 7

\* loginForm.valid: Validators.required, Validators.minLength(6)
formValid(email, password) ==
    validEmail(email) /\ passwordLength(password) >= 6

navigate ==
    /\ nreq < MaxNavOps
    /\ \E url \in Urls :
          /\ router' = routerAfter(currentUser, url)
          /\ last' = [op |-> "navigate", url |-> url]
    /\ nreq' = nreq + 1
    /\ UNCHANGED <<db, created, currentUser, localStorage, view, crud>>

\* LoginComponent.onSubmit
onSubmit ==
    /\ nreq < MaxNavOps
    /\ router.url = "/login"
    /\ \E email \in Emails, password \in FormPasswords :
          IF formValid(email, password)
          THEN /\ Login(email, password, TRUE)
               /\ router' = IF loginUser(fetchUsers(db, TRUE), email, password) # Null
                            THEN routerAfter(currentUser', "/dashboard")
                            ELSE router
          ELSE /\ last' = [op |-> "markAllAsTouched", email |-> email,
                           password |-> password]
               /\ nreq' = nreq + 1
               /\ UNCHANGED <<db, created, currentUser, localStorage, router, view, crud>>

\* NavComponent.logout
navLogout ==
    /\ nreq < MaxNavOps
    /\ Logout
    /\ router' = routerAfter(currentUser', "/login")

\* The page is loaded again: the module-level arrays are seeded anew, the
\* AuthService constructor reads local storage, the URL shown is navigated to.
reload ==
    /\ nreq < MaxNavOps
    /\ router.url # NoUrl
    /\ db' = seedDb
    /\ created' = [c \in Collections |-> <<>>]
    /\ currentUser' = loadUserFromStorage(localStorage)
    /\ router' = IF router.url \in PublicUrls THEN router
                 ELSE routerAfter(currentUser', router.url)
    /\ view' = newDashboard
    /\ crud' = NoComponent
    /\ last' = [op |-> "reload"]
    /\ nreq' = nreq + 1
    /\ UNCHANGED localStorage

NextNav == navigate \/ onSubmit \/ navLogout \/ reload

SpecNav == Init /\ [][NextNav]_vars

-----------------------------------------------------------------------------
(* Numbers: a quotient of two amounts is kept exact as a reduced fraction   *)
(* <<numerator, denominator>>; a denominator 0 stands for the values a      *)
(* division by zero gives                                                   *)

RECURSIVE GCD(_, _)
GCD(a, b) == IF b = 0 THEN a ELSE GCD(b, a % b)

Frac(n, d) == LET g == GCD(n, d) IN <<n \div g, d \div g>>

Infinity == <<1, 0>>
NaN == <<0, 0>>

\* c / t
Ratio(c, t) ==
    IF t = 0 THEN (IF c = 0 THEN NaN ELSE Infinity) ELSE Frac(c, t)

FracAdd(x, y) ==
    IF x = NaN \/ y = NaN THEN NaN
    ELSE IF x = Infinity \/ y = Infinity THEN Infinity
    ELSE Frac(x[1] * y[2] + y[1] * x[2], x[2] * y[2])

\* x * num / den, for num > 0 and den > 0
FracScale(x, num, den) ==
    IF x[2] = 0 THEN x ELSE Frac(x[1] * num, x[2] * den)

\* x <= y, for finite x and y
FracLeq(x, y) == x[1] * y[2] <= y[1] * x[2]

-----------------------------------------------------------------------------
(* The dashboard: four list queries combined, then in-memory aggregation *)

Queries == {"expenses", "incomes", "budgets", "goals"}

\* values of `new Date()` when the dashboard is loaded
Nows == {<<2024, 1, 31>>, <<2024, 3, 31>>, <<2024, 6, 15>>}

IsLeapYear(y) == (y % 4 = 0 /\ y % 100 # 0) \/ y % 400 = 0

DaysInMonth(y, m) ==
    IF m = 2 THEN (IF IsLeapYear(y) THEN 29 ELSE 28)
    ELSE IF m \in {4, 6, 9, 11} THEN 30 ELSE 31

\* date = new Date(); date.setMonth(date.getMonth() - i): <<year, month>> of
\* the result. The day of the month is kept, and a day the target month does
\* not have carries the date over into the month after it.
monthBack(now, i) ==
    LET idx == now[1] * 12 + (now[2] - 1) - i
        over == IF now[3] > DaysInMonth(idx \div 12, (idx % 12) + 1)
                THEN idx + 1 ELSE idx
    IN  <<over \div 12, (over % 12) + 1>>

\* list.filter(x => { const d = new Date(x.date);
\*                    return d.getMonth() + 1 === month && d.getFullYear() === year })
filterInMonth(list, month, year) ==
    LET F[k \in 0..Len(list)] ==
            IF k = 0 THEN <<>>
            ELSE IF /\ Len(NewDate(list[k], "date")) = 3
                    /\ list[k].date[2] = month
                    /\ list[k].date[1] = year
                 THEN Append(F[k-1], list[k])
                 ELSE F[k-1]
    IN  F[Len(list)]

\* list.reduce((sum, x) => sum + x.amount, 0)
sumAmount(list) ==
    LET F[k \in 0..Len(list)] ==
            IF k = 0 THEN 0 ELSE F[k-1] + list[k].amount
    IN  F[Len(list)]

\* Object.keys(categoryTotals): the categories in order of first appearance
categoryLabels(expenses) ==
    LET F[k \in 0..Len(expenses)] ==
            IF k = 0 THEN <<>>
            ELSE IF \E j \in 1..Len(F[k-1]) : F[k-1][j] = expenses[k].category
                 THEN F[k-1]
                 ELSE Append(F[k-1], expenses[k].category)
    IN  F[Len(expenses)]

categoryTotal(expenses, category) ==
    LET F[k \in 0..Len(expenses)] ==
            IF k = 0 THEN 0
            ELSE IF expenses[k].category = category
                 THEN F[k-1] + expenses[k].amount
                 ELSE F[k-1]
    IN  F[Len(expenses)]

NoDataPie == [labels |-> <<"No Data">>, datasets |-> <<[data |-> <<1>>]>>]

NoDataLine ==
    [labels |-> <<"No Data">>,
     datasets |-> <<[label |-> "Savings", data |-> <<0>>]>>]

setupPieChart(expenses) ==
    LET labels == categoryLabels(expenses)
        data == [i \in 1..Len(labels) |-> categoryTotal(expenses, labels[i])]
    IN  IF Len(labels) > 0 /\ Len(data) > 0
        THEN [labels |-> labels, datasets |-> <<[data |-> data]>>]
        ELSE NoDataPie

setupBarChart(incomes, expenses) ==
    [labels |-> <<"This Month">>,
     datasets |-> <<[label |-> "Income", data |-> <<sumAmount(incomes)>>],
                    [label |-> "Expenses", data |-> <<sumAmount(expenses)>>]>>]

\* for (let i = 5; i >= 0; i--): a label <<year, month>> stands for the text
\* toLocaleDateString gives, e.g. 'Jan 2024'
setupLineChart(incomes, expenses, now) ==
    LET months == [k \in 1..6 |-> monthBack(now, 6 - k)]
        savingsData ==
            [k \in 1..6 |->
                sumAmount(filterInMonth(incomes, months[k][2], months[k][1]))
                  - sumAmount(filterInMonth(expenses, months[k][2], months[k][1]))]
    IN  IF Len(months) > 0 /\ Len(savingsData) > 0
        THEN [labels |-> months,
              datasets |-> <<[label |-> "Savings", data |-> savingsData]>>]
        ELSE NoDataLine

\* goals.reduce((sum, g) => sum + (g.currentAmount / g.targetAmount), 0)
totalGoalProgress(goals) ==
    LET F[k \in 0..Len(goals)] ==
            IF k = 0 THEN <<0, 1>>
            ELSE FracAdd(F[k-1], Ratio(goals[k].currentAmount,
                                       goals[k].targetAmount))
    IN  F[Len(goals)]

\* combineLatest emits as soon as one source has delivered
someDelivered(results) == DOMAIN results # {}

\* combineLatest emits once every source has delivered
allDelivered(results) == DOMAIN results = Queries

resultOf(results, query) ==
    IF query \in DOMAIN results THEN results[query] ELSE <<>>

\* the `next` callback of loadDashboardData
dashboardNext(v, results) ==
    LET expenses == resultOf(results, "expenses")
        incomes == resultOf(results, "incomes")
        goals == resultOf(results, "goals")
        monthExpenses == filterInMonth(expenses, v.now[2], v.now[1])
        monthIncomes == filterInMonth(incomes, v.now[2], v.now[1])
    IN  [v EXCEPT
            !.totalExpenses = sumAmount(monthExpenses),
            !.totalIncome = sumAmount(monthIncomes),
            !.savings = sumAmount(monthIncomes) - sumAmount(monthExpenses),
            !.totalGoals = Len(goals),
            !.goalsProgress =
                IF Len(goals) > 0
                THEN FracScale(totalGoalProgress(goals), 100, Len(goals))
                ELSE <<0, 1>>,
            !.pieChartData = setupPieChart(monthExpenses),
            !.barChartData = setupBarChart(monthIncomes, monthExpenses),
            !.lineChartData = setupLineChart(incomes, expenses, v.now),
            !.isLoading = FALSE,
            !.state = "loaded"]

\* the `error` callback of loadDashboardData
dashboardError(v) == [v EXCEPT !.isLoading = FALSE, !.state = "failed"]

\* Stores the dashboard is opened on: the seeded store, and what DELETE
\* requests leave of its expenses, incomes and goals
\* an expense created by POST for a user other than the demo user
otherUsersExpense ==
    [id |-> 6, userId |-> 2, amount |-> 75, category |-> "Food",
     date |-> <<2024, 1, 12>>, isRecurring |-> FALSE]

\* a goal saved with more than its target, and a goal stored with target 0
overGoal ==
    [id |-> 1, userId |-> 1, title |-> "Bike", targetAmount |-> 1000,
     currentAmount |-> 1500, targetDate |-> <<2024, 12, 31>>,
     createdAt |-> <<2024, 1, 1>>]

zeroGoal ==
    [id |-> 1, userId |-> 1, title |-> "Later", targetAmount |-> 0,
     currentAmount |-> 0, targetDate |-> <<2024, 12, 31>>,
     createdAt |-> <<2024, 1, 1>>]

DashExpenses ==
    {seedExpenses, SubSeq(seedExpenses, 2, 4), <<>>,
     Append(seedExpenses, otherUsersExpense)}
DashIncomes == {seedIncomes, <<>>}
DashGoals == {seedGoals, <<>>, <<overGoal>>, <<zeroGoal>>}

\* the demo user has logged in and the router shows /dashboard
InitDash ==
    /\ \E e \in DashExpenses, i \in DashIncomes, g \in DashGoals :
          db = [seedDb EXCEPT !["expenses"] = e, !["incomes"] = i,
                              !["goals"] = g]
    /\ created = [c \in Collections |-> <<>>]
    /\ nreq = 0
    /\ last = NoOp
    /\ currentUser = seedUsers[1]
    /\ localStorage = stringify(seedUsers[1])
    /\ router = [url |-> "/dashboard", returnUrl |-> NoUrl]
    /\ view = newDashboard
    /\ crud = NoComponent

\* ngOnInit and loadDashboardData: the four queries are subscribed to
loadDashboardData ==
    /\ view.state = "idle"
    /\ currentUser # Null
    /\ Truthy(currentUser.id)
    /\ \E now \in Nows :
          view' = [view EXCEPT !.state = "loading", !.isLoading = TRUE,
                               !.userId = currentUser.id, !.now = now,
                               !.pending = Queries]
    /\ last' = [op |-> "loadDashboardData"]
    /\ UNCHANGED <<db, created, nreq, currentUser, localStorage, router, crud>>

\* one of the pending queries delivers its list
queryDelivers ==
    /\ view.state = "loading"
    /\ \E query \in view.pending :
          LET value == listByUser(db, query, view.userId)
              results == [q \in (DOMAIN view.results) \cup {query} |->
                            IF q = query THEN value ELSE view.results[q]]
              v == [view EXCEPT !.pending = @ \ {query},
                                !.results = results,
                                !.order = Append(@, query)]
          IN  /\ view' = IF allDelivered(results)
                         THEN dashboardNext(v, results)
                         ELSE v
              /\ last' = [op |-> "queryDelivers", query |-> query]
    /\ UNCHANGED <<db, created, nreq, currentUser, localStorage, router, crud>>

\* one of the pending queries fails: combineLatest passes the error on and
\* unsubscribes from the other queries
queryFails ==
    /\ view.state = "loading"
    /\ \E query \in view.pending :
          /\ view' = dashboardError([view EXCEPT !.pending = {},
                                                 !.order = Append(@, query)])
          /\ last' = [op |-> "queryFails", query |-> query]
    /\ UNCHANGED <<db, created, nreq, currentUser, localStorage, router, crud>>

NextDash == loadDashboardData \/ queryDelivers \/ queryFails

SpecDash == InitDash /\ [][NextDash]_vars

-----------------------------------------------------------------------------
(* The goals view: progress of a goal *)

MaxAmount == 12   \* currentAmount and targetAmount range over 0..MaxAmount

FracMin(x, y) == IF FracLeq(x, y) THEN x ELSE y

\* progress without the cap at 100
getProgressUncapped(goal) ==
    IF goal.targetAmount = 0 THEN <<0, 1>>
    ELSE FracScale(Ratio(goal.currentAmount, goal.targetAmount), 100, 1)

\* GoalsComponent.getProgress
getProgress(goal) ==
    IF goal.targetAmount = 0 THEN <<0, 1>>
    ELSE FracMin(<<100, 1>>,
                 FracScale(Ratio(goal.currentAmount, goal.targetAmount), 100, 1))

\* GoalsComponent.isCompleted
isCompleted(goal) == goal.currentAmount >= goal.targetAmount

\* a goal card is rendered: the template calls getProgress and isCompleted
renderGoal ==
    /\ \E currentAmount \in 0..MaxAmount, targetAmount \in 0..MaxAmount :
          LET goal == [currentAmount |-> currentAmount,
                       targetAmount |-> targetAmount]
          IN  last' = [op |-> "renderGoal", goal |-> goal,
                       progress |-> getProgress(goal),
                       completed |-> isCompleted(goal)]
    /\ UNCHANGED <<db, created, nreq, currentUser, localStorage, router, view, crud>>

NextGoals == renderGoal

SpecGoals == Init /\ [][NextGoals]_vars

-----------------------------------------------------------------------------
(* The budget and goal services: budget of a month, progress of a goal *)

MaxSvcOps == 3   \* operations per run under SpecSvc

Months == {1, 2}

\* a budget as createBudget receives it (Omit<Budget, 'id'>)
budgetOf(userId, month) ==
    [userId |-> userId, month |-> month, year |-> 2024, totalIncome |-> 100,
     categories |-> << [category |-> "Food", limit |-> 50] >>,
     createdAt |-> Now]

\* budgets.find(b => b.month === month && b.year === year); budget || null
findByMonth(budgets, month, year) ==
    LET matches == {k \in 1..Len(budgets) :
                        /\ Has(budgets[k], "month") /\ budgets[k].month = month
                        /\ Has(budgets[k], "year") /\ budgets[k].year = year}
    IN  IF matches = {} THEN Null
        ELSE budgets[CHOOSE k \in matches : \A j \in matches : k <= j]

\* BudgetService.getBudgetByMonth: getBudgets(userId), then the find
budgetByMonth(d, userId, month, year) ==
    findByMonth(listByUser(d, "budgets", userId), month, year)

\* BudgetService.createBudget, subscribed
createBudget ==
    /\ nreq < MaxSvcOps
    /\ \E u \in UserIds, m \in Months :
          LET req == Request("POST", "budgets", NoId, NoParam, NoParam,
                             budgetOf(u, m))
          IN  /\ db' = storeAfter(db, req)
              /\ created' = createdAfter(created, db, req)
              /\ last' = [op |-> "createBudget", req |-> req,
                          out |-> normalizeDates(respond(db, req).body,
                                                 {"createdAt"})]
    /\ nreq' = nreq + 1
    /\ UNCHANGED <<currentUser, localStorage, router, view, crud>>

\* BudgetService.deleteBudget, subscribed
deleteBudget ==
    /\ nreq < MaxSvcOps
    /\ \E id \in 1..MaxSvcOps :
          LET req == Request("DELETE", "budgets", id, NoParam, NoParam, <<>>)
          IN  /\ db' = storeAfter(db, req)
              /\ last' = [op |-> "deleteBudget", id |-> id, req |-> req,
                          res |-> respond(db, req)]
    /\ nreq' = nreq + 1
    /\ UNCHANGED <<created, currentUser, localStorage, router, view, crud>>

getBudgetByMonth ==
    /\ nreq < MaxSvcOps
    /\ \E u \in UserIds, m \in Months :
          last' = [op |-> "getBudgetByMonth", userId |-> u, month |-> m,
                   year |-> 2024, delivered |-> "next",
                   out |-> budgetByMonth(db, u, m, 2024)]
    /\ nreq' = nreq + 1
    /\ UNCHANGED <<db, created, currentUser, localStorage, router, view, crud>>

Amounts == {0 - 3000, 0, 500}

\* GoalService.getGoalById: the mapped body of GET api/goals/<id>
goalById(d, id) ==
    normalizeDates(
        respond(d, Request("GET", "goals", id, NoParam, NoParam, <<>>)).body,
        {"targetDate", "createdAt"})

\* Math.max(0, goal.currentAmount + amount); NaN when the body has no amount
boundedAmount(goal, amount) ==
    IF Has(goal, "currentAmount")
    THEN Max({0, goal.currentAmount + amount})
    ELSE NaN

\* this.updateGoal(id, { currentAmount }): the request an HttpClient
\* observable sends when, and only when, it is subscribed to
updateGoalCall(id, body) ==
    [kind |-> "observable",
     req |-> Request("PUT", "goals", id, NoParam, NoParam, body)]

\* GoalService.updateGoalProgress, subscribed: getGoalById(id) is sent, and
\* the second `map` delivers the observable that updateGoal returned. `map`
\* does not subscribe to what its function returns, so no PUT is sent.
updateGoalProgress ==
    /\ nreq < MaxSvcOps
    /\ \E id \in 1..MaxSvcOps, amount \in Amounts :
          LET goal == goalById(db, id)
              body == [currentAmount |-> boundedAmount(goal, amount)]
          IN  last' = [op |-> "updateGoalProgress", id |-> id,
                       amount |-> amount,
                       calls |-> << Request("GET", "goals", id, NoParam,
                                            NoParam, <<>>) >>,
                       out |-> updateGoalCall(id, body)]
    /\ nreq' = nreq + 1
    /\ UNCHANGED <<db, created, currentUser, localStorage, router, view, crud>>

NextSvc ==
    \/ createBudget \/ deleteBudget \/ getBudgetByMonth
    \/ updateGoalProgress

SpecSvc == Init /\ [][NextSvc]_vars

-----------------------------------------------------------------------------
(* The CRUD views: expenses, income, budgets, goals *)

MaxCrudOps == 4   \* operations per run under SpecCrud

\* a view is named by the collection it edits
Views == {"expenses", "incomes", "budgets", "goals"}

viewUrl(e) ==
    CASE e = "expenses" -> "/expenses"
      [] e = "incomes"  -> "/income"
      [] e = "budgets"  -> "/budgets"
      [] e = "goals"    -> "/goals"

Undefined == "undefined"   \* the value `undefined` of an optional string field

\* new Date(x).getTime() up to a monotone map; 0 for an Invalid Date
getTime(date) ==
    IF date = InvalidDate THEN 0
    ELSE date[1] * 10000 + date[2] * 100 + date[3]

\* the comparators given to Array.prototype.sort: a is put before b
sortsBefore(e, a, b) ==
    CASE e \in {"expenses", "incomes"} -> getTime(b.date) - getTime(a.date) < 0
      [] e = "budgets" ->
            IF a.year # b.year THEN b.year - a.year < 0
            ELSE b.month - a.month < 0
      [] e = "goals" -> getTime(a.targetDate) - getTime(b.targetDate) < 0

\* Array.prototype.sort is stable: equal rows keep their order
sortRows(e, rows) ==
    LET insert(s, x) ==
            LET p == Cardinality({j \in 1..Len(s) : ~sortsBefore(e, x, s[j])})
            IN  SubSeq(s, 1, p) \o <<x>> \o SubSeq(s, p + 1, Len(s))
        F[k \in 0..Len(rows)] ==
            IF k = 0 THEN <<>> ELSE insert(F[k-1], rows[k])
    IN  F[Len(rows)]

\* loadExpenses / loadIncomes / loadBudgets / loadGoals, delivered
loadRows(d, e, userId) == sortRows(e, listByUser(d, e, userId))

\* The value of a FormGroup: the controls that hold a value. A control that
\* holds null or '' is left out; `group` names the FormGroup.
formName(e) ==
    CASE e = "expenses" -> "expenseForm"
      [] e = "incomes"  -> "incomeForm"
      [] e = "budgets"  -> "budgetForm"
      [] e = "goals"    -> "goalForm"

emptyCategory == [group |-> "category"]

\* the form as the constructor builds it
newForm(e) ==
    CASE e = "expenses" -> [group |-> formName(e), date |-> Now,
                            isRecurring |-> FALSE,
                            recurringFrequency |-> "monthly"]
      [] e = "incomes"  -> [group |-> formName(e), date |-> Now]
      [] e = "budgets"  -> [group |-> formName(e), year |-> Now[1],
                            categories |-> <<>>]
      [] e = "goals"    -> [group |-> formName(e), currentAmount |-> 0,
                            targetDate |-> Now]

\* openAddDialog: reset to the defaults; a budget gets one empty category
addForm(e) ==
    IF e = "budgets"
    THEN [newForm(e) EXCEPT !.categories = <<emptyCategory>>]
    ELSE newForm(e)

\* form.reset(): every control is null; a FormArray keeps its length
resetForm(e, form) ==
    IF e = "budgets"
    THEN [group |-> formName(e),
          categories |-> [k \in 1..Len(form.categories) |-> emptyCategory]]
    ELSE [group |-> formName(e)]

\* openEditDialog: the values patched into the form
formOf(e, rec) ==
    CASE e = "expenses" ->
            [group |-> formName(e), amount |-> rec.amount,
             category |-> rec.category, date |-> rec.date,
             isRecurring |-> rec.isRecurring,
             recurringFrequency |->
                IF Has(rec, "recurringFrequency")
                   /\ rec.recurringFrequency # Undefined
                THEN rec.recurringFrequency ELSE "monthly"]
      [] e = "incomes" ->
            [group |-> formName(e), amount |-> rec.amount,
             source |-> rec.source, date |-> rec.date]
      [] e = "budgets" ->
            [group |-> formName(e), month |-> rec.month, year |-> rec.year,
             totalIncome |-> rec.totalIncome,
             categories |->
                [k \in 1..Len(rec.categories) |->
                    [group |-> "category",
                     category |-> rec.categories[k].category,
                     limit |-> rec.categories[k].limit]]]
      [] e = "goals" ->
            [group |-> formName(e), title |-> rec.title,
             targetAmount |-> rec.targetAmount,
             currentAmount |-> rec.currentAmount,
             targetDate |-> rec.targetDate]

\* Validators.required and Validators.min(0.01) on whole amounts
validCategory(row) ==
    Has(row, "category") /\ Has(row, "limit") /\ row.limit >= 1

\* form.valid
valid(e, form) ==
    CASE e = "expenses" ->
            /\ Has(form, "amount") /\ form.amount >= 1
            /\ Has(form, "category") /\ Has(form, "date")
      [] e = "incomes" ->
            /\ Has(form, "amount") /\ form.amount >= 1
            /\ Has(form, "source") /\ Has(form, "date")
      [] e = "budgets" ->
            /\ Has(form, "month")
            /\ Has(form, "year") /\ form.year >= 2000 /\ form.year <= 2100
            /\ Has(form, "totalIncome") /\ form.totalIncome >= 1
            /\ \A k \in 1..Len(form.categories) :
                  validCategory(form.categories[k])
      [] e = "goals" ->
            /\ Has(form, "title")
            /\ Has(form, "targetAmount") /\ form.targetAmount >= 1
            /\ Has(form, "currentAmount") /\ form.currentAmount >= 0
            /\ Has(form, "targetDate")

\* saveBudget also wants categoriesFormArray.length > 0
savable(e, form, userId) ==
    /\ valid(e, form)
    /\ Truthy(userId)
    /\ e = "budgets" => Len(form.categories) > 0

\* expenseData that sends the frequency of the form whatever isRecurring is
expenseDataKeepsFrequency(form, userId) ==
    [userId |-> userId, amount |-> form.amount, category |-> form.category,
     date |-> form.date, isRecurring |-> form.isRecurring,
     recurringFrequency |-> form.recurringFrequency]

\* saveExpense: expenseData
expenseData(form, userId) ==
    [userId |-> userId, amount |-> form.amount, category |-> form.category,
     date |-> form.date, isRecurring |-> form.isRecurring,
     recurringFrequency |->
        IF form.isRecurring THEN form.recurringFrequency ELSE Undefined]

\* saveIncome: incomeData
incomeData(form, userId) ==
    [userId |-> userId, amount |-> form.amount, source |-> form.source,
     date |-> form.date]

\* saveBudget: budgetData; parseInt of a whole number is that number
budgetData(form, userId) ==
    [userId |-> userId, month |-> form.month, year |-> form.year,
     totalIncome |-> form.totalIncome,
     categories |-> [k \in 1..Len(form.categories) |->
                        [category |-> form.categories[k].category,
                         limit |-> form.categories[k].limit]],
     createdAt |-> Now]

\* saveGoal: goalData; currentAmount || 0 is currentAmount on numbers
goalData(form, userId) ==
    [userId |-> userId, title |-> form.title,
     targetAmount |-> form.targetAmount,
     currentAmount |-> form.currentAmount,
     targetDate |-> form.targetDate, createdAt |-> Now]

dataOf(e, form, userId) ==
    CASE e = "expenses" -> expenseData(form, userId)
      [] e = "incomes"  -> incomeData(form, userId)
      [] e = "budgets"  -> budgetData(form, userId)
      [] e = "goals"    -> goalData(form, userId)

\* what the user types into the form before saving
TypedForms(e) ==
    CASE e = "expenses" ->
            {[group |-> formName(e), amount |-> a, category |-> "Food",
              date |-> Now, isRecurring |-> r, recurringFrequency |-> "weekly"] :
                a \in {0, 40}, r \in BOOLEAN}
      [] e = "incomes" ->
            {[group |-> formName(e), amount |-> a, source |-> "Bonus",
              date |-> Now] : a \in {0, 60}}
      [] e = "budgets" ->
            {[group |-> formName(e), month |-> 2, year |-> 2024,
              totalIncome |-> 100, categories |-> c] :
                c \in {<<>>, <<[group |-> "category", category |-> "Food",
                                limit |-> 50]>>}}
      [] e = "goals" ->
            {[group |-> formName(e), title |-> "Car", targetAmount |-> t,
              currentAmount |-> 3, targetDate |-> <<2025, 1, 1>>] :
                t \in {0, 8}}

\* the observer called: a response of the router is delivered to `next`
\* whatever its status; a request passed through has no backend to answer it
snackBarAfter(res, done, failed) ==
    IF res.kind = "response" THEN done ELSE failed

\* the demo user has logged in and the router shows /dashboard
InitCrud ==
    /\ db = seedDb
    /\ created = [c \in Collections |-> <<>>]
    /\ nreq = 0
    /\ last = NoOp
    /\ currentUser = seedUsers[1]
    /\ localStorage = stringify(seedUsers[1])
    /\ router = [url |-> "/dashboard", returnUrl |-> NoUrl]
    /\ view = newDashboard
    /\ crud = NoComponent

\* the view is navigated to: constructor, then ngOnInit loads the rows
ngOnInit ==
    /\ nreq < MaxCrudOps
    /\ \E e \in Views :
          /\ router' = routerAfter(currentUser, viewUrl(e))
          /\ crud' = IF router'.url = viewUrl(e)
                     THEN [entity |-> e, currentUserId |-> currentUser.id,
                           rows |-> loadRows(db, e, currentUser.id),
                           isEditMode |-> FALSE, editingId |-> NoId,
                           form |-> newForm(e), snackBar |-> "none"]
                     ELSE NoComponent
          /\ last' = [op |-> "ngOnInit", entity |-> e]
    /\ nreq' = nreq + 1
    /\ UNCHANGED <<db, created, currentUser, localStorage, view>>

openAddDialog ==
    /\ nreq < MaxCrudOps
    /\ crud # NoComponent
    /\ crud' = [crud EXCEPT !.isEditMode = FALSE, !.editingId = NoId,
                            !.form = addForm(crud.entity)]
    /\ last' = [op |-> "openAddDialog", entity |-> crud.entity]
    /\ nreq' = nreq + 1
    /\ UNCHANGED <<db, created, currentUser, localStorage, router, view>>

\* the edit button of a row shown
openEditDialog ==
    /\ nreq < MaxCrudOps
    /\ crud # NoComponent
    /\ \E k \in 1..Len(crud.rows) :
          /\ crud' = [crud EXCEPT !.isEditMode = TRUE,
                                  !.editingId = crud.rows[k].id,
                                  !.form = formOf(crud.entity, crud.rows[k])]
          /\ last' = [op |-> "openEditDialog", entity |-> crud.entity,
                      id |-> crud.rows[k].id]
    /\ nreq' = nreq + 1
    /\ UNCHANGED <<db, created, currentUser, localStorage, router, view>>

\* saveExpense / saveIncome / saveBudget / saveGoal on the form as it stands
\* or as the user has filled it in
save ==
    /\ nreq < MaxCrudOps
    /\ crud # NoComponent
    /\ \E form \in {crud.form} \cup TypedForms(crud.entity) :
          LET e == crud.entity
              update == crud.isEditMode /\ Truthy(crud.editingId)
              req == IF update
                     THEN Request("PUT", e, crud.editingId, NoParam, NoParam,
                                  dataOf(e, form, crud.currentUserId))
                     ELSE Request("POST", e, NoId, NoParam, NoParam,
                                  dataOf(e, form, crud.currentUserId))
              res == respond(db, req)
              text == IF update
                      THEN snackBarAfter(res, "updated successfully",
                                         "Error updating")
                      ELSE snackBarAfter(res, "created successfully",
                                         "Error creating")
          IN  IF savable(e, form, crud.currentUserId)
              THEN /\ db' = storeAfter(db, req)
                   /\ created' = createdAfter(created, db, req)
                   /\ crud' = IF res.kind = "response"
                              THEN [crud EXCEPT
                                      !.rows = loadRows(db', e,
                                                        crud.currentUserId),
                                      !.form = resetForm(e, form),
                                      !.snackBar = text]
                              ELSE [crud EXCEPT !.form = form,
                                                !.snackBar = text]
                   /\ last' = [op |-> "save", entity |-> e,
                               mode |-> IF update THEN "update" ELSE "create",
                               id |-> crud.editingId, form |-> form,
                               req |-> req, res |-> res, snackBar |-> text]
              ELSE \* markAllAsTouched
                   /\ crud' = [crud EXCEPT
                                 !.form = form,
                                 !.snackBar =
                                    IF e = "budgets" /\ Len(form.categories) = 0
                                    THEN "Please add at least one category"
                                    ELSE @]
                   /\ last' = [op |-> "save", entity |-> e,
                               mode |-> "invalid", id |-> crud.editingId,
                               form |-> form]
                   /\ UNCHANGED <<db, created>>
    /\ nreq' = nreq + 1
    /\ UNCHANGED <<currentUser, localStorage, router, view>>

\* deleteExpense / deleteIncome / deleteBudget / deleteGoal: the delete
\* button of a row shown, confirmed or not
delete ==
    /\ nreq < MaxCrudOps
    /\ crud # NoComponent
    /\ \E k \in 1..Len(crud.rows), confirm \in BOOLEAN :
          LET e == crud.entity
              id == crud.rows[k].id
              req == Request("DELETE", e, id, NoParam, NoParam, <<>>)
              res == respond(db, req)
              text == snackBarAfter(res, "deleted successfully",
                                    "Error deleting")
          IN  IF confirm
              THEN /\ db' = storeAfter(db, req)
                   /\ crud' = IF res.kind = "response"
                              THEN [crud EXCEPT
                                      !.rows = loadRows(db', e,
                                                        crud.currentUserId),
                                      !.snackBar = text]
                              ELSE [crud EXCEPT !.snackBar = text]
                   /\ last' = [op |-> "delete", entity |-> e, id |-> id,
                               confirm |-> TRUE, req |-> req, res |-> res,
                               snackBar |-> text]
              ELSE /\ last' = [op |-> "delete", entity |-> e, id |-> id,
                               confirm |-> FALSE]
                   /\ UNCHANGED <<db, crud>>
    /\ nreq' = nreq + 1
    /\ UNCHANGED <<created, currentUser, localStorage, router, view>>

NextCrud == ngOnInit \/ openAddDialog \/ openEditDialog \/ save \/ delete

SpecCrud == InitCrud /\ [][NextCrud]_vars

-----------------------------------------------------------------------------
(* Properties of the store and the router *)

ListOps == {"getExpenses", "getIncomes", "getBudgets", "getGoals"}

IsHttp(l, method) ==
    l.op = "http" /\ l.req.method = method /\ l.req.path \in Collections

OwnedBy(rec, u) == Has(rec, "userId") /\ rec.userId = u

Positions(collection, id) == {k \in 1..Len(collection) : collection[k].id = id}

First(S) == CHOOSE k \in S : \A j \in S : k <= j

\* C1: a list-by-user operation called with userId u returns exactly the
\* records of its collection owned by u, in storage order: every record
\* returned is owned by u, and every record owned by u is returned once.
C1_ListScopedToUser ==
    last.op \in ListOps =>
        LET stored == db[last.path]
            owned == {k \in 1..Len(stored) : OwnedBy(stored[k], last.userId)}
        IN  /\ \A k \in 1..Len(last.out) : OwnedBy(last.out[k], last.userId)
            /\ Len(last.out) = Cardinality(owned)
            /\ {last.out[k].id : k \in 1..Len(last.out)}
                   = {stored[k].id : k \in owned}

\* C2: in every collection the ids handed out by successive creates are
\* strictly increasing, so no id is handed out twice, whatever updates and
\* deletes come in between.
C2_CreatedIdsStrictlyIncrease ==
    \A c \in Collections :
        \A i, j \in 1..Len(created[c]) :
            i < j => created[c][i] < created[c][j]

\* C3: no two records of one collection have the same id.
C3_IdsUniquePerCollection ==
    \A c \in Collections :
        \A i, j \in 1..Len(db[c]) : i # j => db[c][i].id # db[c][j].id

\* C4: a POST of body b to a collection returns status 201 and a record equal
\* to b except for its id, which is one no stored record had (an id in b is
\* ignored); GET by that id right afterwards returns that same record; the
\* POST appends exactly that record to the collection and leaves the other
\* collections as they were.
C4_PostThenGetById ==
    [][ IsHttp(last', "POST") =>
          LET c == last'.req.path
              b == last'.req.body
              made == last'.res.body
              got == respond(db', Request("GET", c, made.id, NoParam, NoParam, <<>>))
          IN  /\ last'.res.status = 201
              /\ DOMAIN made = (DOMAIN b) \cup {"id"}
              /\ \A f \in (DOMAIN b) \ {"id"} : made[f] = b[f]
              /\ made.id \notin Ids(db[c])
              /\ got.status = 200
              /\ got.body = made
              /\ db'[c] = Append(db[c], made)
              /\ \A o \in Collections \ {c} : db'[o] = db[o]
      ]_vars

\* C4 witness: a POST whose body carried an id was answered with another id.
C4_Witness ==
    /\ IsHttp(last, "POST")
    /\ Has(last.req.body, "id")
    /\ last.res.status = 201
    /\ last.res.body.id # last.req.body.id

\* C5: a PUT to an id present in the collection replaces the (first) record
\* with that id by one that has the body's value in every field of the body
\* and its previous value in every other field; the record keeps its place,
\* every other record and every other collection is unchanged, the answer is
\* status 200 with the merged record.
C5_PutMergesShallowly ==
    [][ (IsHttp(last', "PUT") /\ Positions(db[last'.req.path], last'.req.id) # {}) =>
          LET c == last'.req.path
              b == last'.req.body
              k == First(Positions(db[c], last'.req.id))
              old == db[c][k]
              new == db'[c][k]
          IN  /\ Len(db'[c]) = Len(db[c])
              /\ DOMAIN new = (DOMAIN old) \cup (DOMAIN b)
              /\ \A f \in DOMAIN b : new[f] = b[f]
              /\ \A f \in (DOMAIN old) \ (DOMAIN b) : new[f] = old[f]
              /\ \A j \in 1..Len(db[c]) : j # k => db'[c][j] = db[c][j]
              /\ \A o \in Collections \ {c} : db'[o] = db[o]
              /\ last'.res.status = 200
              /\ last'.res.body = new
      ]_vars

\* C5 witness: a PUT was answered with a record that has a field the body did
\* not carry next to a field the body overwrote.
C5_Witness ==
    /\ IsHttp(last, "PUT")
    /\ last.res.status = 200
    /\ Has(last.req.body, "amount")
    /\ Has(last.res.body, "category")
    /\ last.res.body.amount = last.req.body.amount

\* C6: a DELETE of an id present in the collection removes exactly one record,
\* one with that id, keeps the others in their order and the other
\* collections as they were; the same DELETE sent again right afterwards is
\* answered 404 and changes nothing.
C6_DeleteRemovesExactlyOne ==
    [][ (IsHttp(last', "DELETE") /\ Positions(db[last'.req.path], last'.req.id) # {}) =>
          LET c == last'.req.path
              again == last'.req
          IN  /\ last'.res.status = 200
              /\ \E k \in Positions(db[c], last'.req.id) :
                    /\ Len(db'[c]) = Len(db[c]) - 1
                    /\ \A j \in 1..Len(db'[c]) :
                          db'[c][j] = IF j < k THEN db[c][j] ELSE db[c][j+1]
              /\ \A o \in Collections \ {c} : db'[o] = db[o]
              /\ respond(db', again).status = 404
              /\ storeAfter(db', again) = db'
      ]_vars

\* C7: a GET, PUT or DELETE to a known collection with an id that no record of
\* it has is answered with status 404, as a response, and leaves the store as
\* it was; every other answer of the router has status 200, or 201 for a POST.
C7_NotFoundIsAResponse ==
    [][ (last'.op = "http" /\ last'.req.path \in Collections) =>
          LET r == last'.req
              missing == /\ r.method \in {"GET", "PUT", "DELETE"}
                         /\ r.id # NoId
                         /\ r.id \notin Ids(db[r.path])
          IN  /\ missing => /\ last'.res.kind = "response"
                            /\ last'.res.status = 404
                            /\ db' = db
              /\ (last'.res.kind = "response" /\ ~missing) =>
                    last'.res.status = IF r.method = "POST" THEN 201 ELSE 200
      ]_vars

\* the elements of `collection` at the positions in `keep`, in storage order
Pick(collection, keep) ==
    LET F[k \in 0..Len(collection)] ==
            IF k = 0 THEN <<>>
            ELSE IF k \in keep THEN Append(F[k-1], collection[k]) ELSE F[k-1]
    IN  F[Len(collection)]

\* C15: getExpensesByCategory(userId, category) returns exactly the stored
\* expenses whose userId is userId and whose category is category, in storage
\* order (their dates passed through the date conversion).
C15_ByCategoryFiltersBoth ==
    last.op = "getExpensesByCategory" =>
        LET stored == db["expenses"]
            keep == {k \in 1..Len(stored) :
                        /\ OwnedBy(stored[k], last.userId)
                        /\ Has(stored[k], "category")
                        /\ stored[k].category = last.category}
            wanted == Pick(stored, keep)
        IN  last.out = [k \in 1..Len(wanted) |-> normalizeDates(wanted[k], {"date"})]

\* C16: a GET, POST, PUT or DELETE whose path names none of the five
\* collections is handed to the next handler unanswered and leaves the five
\* collections as they were.
C16_UnknownPathPassesThrough ==
    [][ (last'.op = "http" /\ last'.req.path \notin Collections) =>
          /\ last'.res = PassThrough
          /\ db' = db
      ]_vars

\* C16 witness: a POST with a body to a path that is no collection was handed
\* on, and the store is the seeded one.
C16_Witness ==
    /\ last.op = "http"
    /\ last.req.method = "POST"
    /\ last.req.path = "reports"
    /\ last.res = PassThrough
    /\ db = seedDb

-----------------------------------------------------------------------------
(* Properties of the session state *)

SameAddress(a, b) == trim(toLowerCase(a)) = trim(toLowerCase(b))

\* the stored users whose e-mail address equals `email` case-insensitively
\* after trimming and whose password is exactly `password`
Matching(users, email, password) ==
    {k \in 1..Len(users) :
        /\ Has(users[k], "email") /\ Has(users[k], "password")
        /\ SameAddress(users[k].email, email)
        /\ users[k].password = password}

NonEmptyMatching(users, email, password) ==
    {k \in Matching(users, email, password) : users[k].email # <<>>}

C9_FailedLoginClearsSession ==
    last.op = "login" =>
        /\ Matching(db["users"], last.email, last.password) = {} => last.out = Null
        /\ last.out = Null => currentUser = Null

\* C9 witness: a login failed while a session was published.
C9_Witness ==
    /\ last.op = "login"
    /\ last.out = Null
    /\ last.sessionBefore # Null
    /\ currentUser = Null

RegisterEffect(dup) ==
    LET e == last'.userData.email
        users == db["users"]
    IN  /\ last'.failed <=> dup
        /\ last'.failed =>
              /\ last'.out = DuplicateEmail
              /\ db' = db
        /\ ~last'.failed =>
              /\ Len(db'["users"]) = Len(users) + 1
              /\ \A k \in 1..Len(users) : db'["users"][k] = users[k]
              /\ db'["users"][Len(users) + 1] = last'.out
              /\ last'.out.email = e
              /\ last'.out.password = last'.userData.password
              /\ \A o \in Collections \ {"users"} : db'[o] = db[o]
        /\ currentUser' = currentUser
        /\ localStorage' = localStorage

C26_PersistedMirrorsPublished ==
    /\ (localStorage # NoEntry) <=> (currentUser # Null)
    /\ currentUser # Null =>
          \/ localStorage = stringify(currentUser)
          \/ localStorage = currentUser

-----------------------------------------------------------------------------
(* Properties of the navigation *)

\* C12: logout, in whatever state it is called, leaves no persisted session
\* entry and no published current user, and leaves the store collections as
\* they were; it is possible in every state (it has no failing path).
C12_LogoutClearsBoth ==
    /\ [](nreq < MaxNavOps => ENABLED navLogout)
    /\ [][ last'.op = "logout" =>
              /\ localStorage' = NoEntry
              /\ currentUser' = Null
              /\ db' = db
         ]_vars

\* C12 witness: a logout was made while a session was published and
\* persisted, and neither is left.
C12_Witness ==
    /\ last.op = "logout"
    /\ last.sessionBefore # Null
    /\ last.storedBefore # NoEntry
    /\ currentUser = Null
    /\ localStorage = NoEntry

\* C13: a navigation to one of the six feature routes shows that view if and
\* only if a session is published; otherwise it ends on /login with the
\* requested URL as returnUrl. No protected view is shown without a published
\* session, and once neither a published nor a persisted session is left, one
\* appears again only through a login that succeeds.
C13_GateAllowsIffSessionPublished ==
    /\ [](router.url \in ProtectedUrls => currentUser # Null)
    /\ [][ /\ (last'.op = "navigate" /\ last'.url \in ProtectedUrls) =>
                 IF currentUser # Null
                 THEN router' = [url |-> last'.url, returnUrl |-> NoUrl]
                 ELSE router' = [url |-> "/login", returnUrl |-> last'.url]
           /\ (currentUser = Null /\ localStorage = NoEntry
                 /\ (currentUser' # Null \/ localStorage' # NoEntry)) =>
                 (last'.op = "login" /\ last'.out # Null)
         ]_vars

\* C13 witness: after a logout, a navigation to a protected view was denied
\* and redirected to /login carrying the requested URL.
C13_Witness ==
    /\ last.op = "navigate"
    /\ last.url = "/reports"
    /\ currentUser = Null
    /\ router = [url |-> "/login", returnUrl |-> "/reports"]

\* C14: a login that succeeds on the login view reached by a redirect from
\* the protected URL P (returnUrl = P) navigates to P.
C14_LoginReturnsToRequestedUrl ==
    [][ (last'.op = "login" /\ last'.out # Null /\ router.url = "/login"
            /\ router.returnUrl # NoUrl) =>
          router'.url = router.returnUrl
      ]_vars

-----------------------------------------------------------------------------
(* Properties of the dashboard *)

\* the fields the aggregation sets still have the values of the constructor
Untouched(v) ==
    /\ v.totalIncome = 0 /\ v.totalExpenses = 0 /\ v.savings = 0
    /\ v.totalGoals = 0 /\ v.goalsProgress = <<0, 1>>
    /\ v.pieChartData = newDashboard.pieChartData
    /\ v.barChartData = newDashboard.barChartData
    /\ v.lineChartData = newDashboard.lineChartData

\* C18: while one of the four queries of the dashboard has not delivered, no
\* total and no chart series is set; they are set once all four have
\* delivered, in whatever order, from the four lists delivered; when a query
\* fails the loading flag is cleared and no total and no chart series is set.
C18_AggregatesOnlyWhenAllFourDelivered ==
    /\ view.state = "loading" =>
          /\ view.isLoading
          /\ view.pending # {}
          /\ DOMAIN view.results = Queries \ view.pending
          /\ Untouched(view)
    /\ view.state = "loaded" =>
          /\ ~view.isLoading
          /\ DOMAIN view.results = Queries
          /\ \A q \in Queries : view.results[q] = listByUser(db, q, view.userId)
          /\ view.totalExpenses =
                sumAmount(filterInMonth(view.results["expenses"],
                                        view.now[2], view.now[1]))
          /\ view.totalIncome =
                sumAmount(filterInMonth(view.results["incomes"],
                                        view.now[2], view.now[1]))
          /\ view.totalGoals = Len(view.results["goals"])
          /\ view.savings = view.totalIncome - view.totalExpenses
          /\ view.barChartData.datasets[1].data = <<view.totalIncome>>
          /\ view.barChartData.datasets[2].data = <<view.totalExpenses>>
          /\ Len(view.lineChartData.labels) = 6
    /\ view.state = "failed" =>
          /\ ~view.isLoading
          /\ Untouched(view)

\* C18 witness: the dashboard is loaded although the queries delivered in the
\* reverse of the order they were issued in.
C18_Witness ==
    /\ view.state = "loaded"
    /\ view.order = <<"goals", "budgets", "incomes", "expenses">>
    /\ view.totalExpenses > 0

\* C19: on a loaded dashboard, each chart whose input is empty shows the
\* single category "No Data": the pie chart when the month has no expenses,
\* the bar chart when the month has neither incomes nor expenses, the line
\* chart when there are no incomes and no expenses at all.
C19_EmptyChartsShowNoData ==
    view.state = "loaded" =>
        LET expenses == view.results["expenses"]
            incomes == view.results["incomes"]
            monthExpenses == filterInMonth(expenses, view.now[2], view.now[1])
            monthIncomes == filterInMonth(incomes, view.now[2], view.now[1])
        IN  /\ monthExpenses = <<>> => view.pieChartData.labels = <<"No Data">>
            /\ (monthIncomes = <<>> /\ monthExpenses = <<>>) =>
                  view.barChartData.labels = <<"No Data">>
            /\ (incomes = <<>> /\ expenses = <<>>) =>
                  view.lineChartData.labels = <<"No Data">>

\* the records of `collection` owned by user u, in storage order
OwnRecords(collection, u) ==
    Pick(collection, {k \in 1..Len(collection) : OwnedBy(collection[k], u)})

\* C21: on the dashboard loaded for user u, totalExpenses is the sum of the
\* amounts of u's stored expenses dated in the current month and year,
\* totalIncome the same sum over u's incomes, savings their difference, and
\* when u has expenses in the month the pie chart has one entry for each of
\* their categories, holding that category's sum.
C21_TotalsAreTheUsersMonthSums ==
    view.state = "loaded" =>
        LET month == view.now[2]
            year == view.now[1]
            expenses ==
                filterInMonth(OwnRecords(db["expenses"], view.userId), month, year)
            incomes ==
                filterInMonth(OwnRecords(db["incomes"], view.userId), month, year)
            labels == view.pieChartData.labels
            data == view.pieChartData.datasets[1].data
        IN  /\ view.totalExpenses = sumAmount(expenses)
            /\ view.totalIncome = sumAmount(incomes)
            /\ view.savings = view.totalIncome - view.totalExpenses
            /\ expenses # <<>> =>
                  /\ Len(data) = Len(labels)
                  /\ {labels[k] : k \in 1..Len(labels)}
                        = {expenses[k].category : k \in 1..Len(expenses)}
                  /\ \A i, j \in 1..Len(labels) : i # j => labels[i] # labels[j]
                  /\ \A k \in 1..Len(labels) :
                        data[k] = categoryTotal(expenses, labels[k])

\* the sum of the progress the goals view shows for each goal
sumOfProgress(goals) ==
    LET F[k \in 0..Len(goals)] ==
            IF k = 0 THEN <<0, 1>>
            ELSE FracAdd(F[k-1], getProgress(goals[k]))
    IN  F[Len(goals)]

\* C29: on a loaded dashboard goalsProgress is a percentage between 0 and 100,
\* is 0 without goals, and is the average over the goals delivered of the
\* progress the goals view shows for each (capped at 100, 0 for target 0).
C29_GoalsProgressIsAveragePercentage ==
    view.state = "loaded" =>
        LET goals == view.results["goals"]
            p == view.goalsProgress
        IN  /\ p[2] > 0
            /\ 0 <= p[1]
            /\ p[1] <= 100 * p[2]
            /\ goals = <<>> => p[1] = 0
            /\ goals # <<>> => p = FracScale(sumOfProgress(goals), 1, Len(goals))

\* C30: on a loaded dashboard the line chart has six buckets, the six
\* consecutive calendar months that end with the current month, in order;
\* each holds that month's income sum minus its expense sum, and the last
\* one equals savings.
C30_LineChartIsSixConsecutiveMonths ==
    view.state = "loaded" =>
        LET labels == view.lineChartData.labels
            data == view.lineChartData.datasets[1].data
            idx == view.now[1] * 12 + (view.now[2] - 1)
        IN  /\ Len(labels) = 6
            /\ Len(data) = 6
            /\ \A k \in 1..6 :
                  LET m == idx - 6 + k
                      year == m \div 12
                      month == (m % 12) + 1
                  IN  /\ labels[k] = <<year, month>>
                      /\ data[k] =
                            sumAmount(filterInMonth(view.results["incomes"],
                                                    month, year))
                            - sumAmount(filterInMonth(view.results["expenses"],
                                                      month, year))
            /\ data[6] = view.savings

-----------------------------------------------------------------------------
(* Properties of the goals view *)

\* C20: for a goal with targetAmount > 0, getProgress is 100 when
\* currentAmount / targetAmount * 100 is at least 100 and is that quotient
\* otherwise; for a goal with targetAmount = 0 it is 0; isCompleted is true
\* if and only if currentAmount >= targetAmount.
C20_ProgressIsCappedQuotient ==
    last.op = "renderGoal" =>
        LET c == last.goal.currentAmount
            t == last.goal.targetAmount
            p == last.progress
        IN  /\ t > 0 =>
                  /\ p[2] > 0
                  /\ IF 100 * c >= 100 * t
                     THEN p[1] = 100 * p[2]
                     ELSE p[1] * t = 100 * c * p[2]
            /\ t = 0 => p[1] = 0 /\ p[2] > 0
            /\ last.completed <=> (c >= t)

\* C20 witness: a goal whose current amount exceeds its positive target has
\* progress 100 and is completed.
C20_Witness ==
    /\ last.op = "renderGoal"
    /\ last.goal.targetAmount > 0
    /\ last.goal.currentAmount > last.goal.targetAmount
    /\ last.progress = <<100, 1>>
    /\ last.completed

-----------------------------------------------------------------------------
(* Properties of the services over a failing transport *)

\* C11: no two stored users have e-mail addresses that are equal
\* case-insensitively, whatever registrations were made, those whose fetch of
\* the user list failed included.
C11_StoredEmailsDifferIgnoringCase ==
    \A i, j \in 1..Len(db["users"]) :
        i # j => toLowerCase(db["users"][i].email)
                    # toLowerCase(db["users"][j].email)

\* C17: when the transport fails, a list operation of a query service
\* delivers an empty collection as a value, not an error; a login whose fetch
\* failed delivers Null, and a register whose fetch failed goes on as with an
\* empty user list.
C17_TransportFailureMeansNoData ==
    /\ (last.op \in ListOps /\ ~last.transportOk) =>
          last.delivered = Delivered("next", <<>>)
    /\ (last.op = "login" /\ ~last.fetchOk) => last.out = Null
    /\ (last.op = "register" /\ ~last.fetchOk) => ~last.failed


-----------------------------------------------------------------------------
(* Properties of the budget and goal services *)

\* C22: getBudgetByMonth(userId, month, year) delivers null as a value, not
\* an error, whenever the store holds no budget of that user for that month
\* and year.
C22_NoBudgetOfTheUserMeansNull ==
    last.op = "getBudgetByMonth" =>
        /\ last.delivered = "next"
        /\ (\A k \in 1..Len(db["budgets"]) :
                ~ /\ db["budgets"][k].userId = last.userId
                  /\ db["budgets"][k].month = last.month
                  /\ db["budgets"][k].year = last.year)
              => last.out = Null

\* C25: updateGoalProgress(id, amount) on a stored goal, subscribed, leaves
\* that goal with currentAmount = max(0, previous currentAmount + amount)
\* through exactly one update call; no other field and no other record
\* changes.
C25_ProgressAddsBoundedAmount ==
    [][ (last'.op = "updateGoalProgress"
            /\ findIndex(db["goals"], last'.id) # 0) =>
          LET index == findIndex(db["goals"], last'.id)
              goal == db["goals"][index]
          IN  /\ db' = [db EXCEPT !["goals"][index].currentAmount =
                            Max({0, goal.currentAmount + last'.amount})]
              /\ Cardinality({k \in 1..Len(last'.calls) :
                                last'.calls[k].method = "PUT"}) = 1 ]_vars


-----------------------------------------------------------------------------
(* Properties of the CRUD views *)

\* C23: whatever expenses were created and edited through the expense form,
\* a stored expense carries a recurringFrequency only when its isRecurring
\* flag is true; an expense edited from recurring to non-recurring keeps no
\* frequency.
C23_FrequencyOnlyWhenRecurring ==
    \A k \in 1..Len(db["expenses"]) :
        LET expense == db["expenses"][k]
        IN  (Has(expense, "recurringFrequency")
                /\ expense.recurringFrequency # Undefined)
            => expense.isRecurring = TRUE

\* C23 happens: the seeded monthly rent (recurring) was opened for editing
\* and saved as non-recurring while the form still held a frequency; the
\* stored record has isRecurring false and no frequency.
C23_Witness ==
    /\ last.op = "save" /\ last.mode = "update" /\ last.entity = "expenses"
    /\ last.id = 1
    /\ last.res.status = 200
    /\ Has(last.form, "recurringFrequency")
    /\ ~last.form.isRecurring
    /\ findIndex(db["expenses"], 1) # 0
    /\ LET expense == db["expenses"][findIndex(db["expenses"], 1)]
       IN  /\ ~expense.isRecurring
           /\ expense.recurringFrequency = Undefined

\* C24: when a view saves an edit of, or deletes, a record that is no longer
\* in the store, the not-found result is shown as an error: the view never
\* reports the update or the deletion as successful.
C24_NotFoundIsNotReportedAsSuccess ==
    (last.op \in {"save", "delete"} /\ Has(last, "res")
        /\ last.res = NotFound)
    => last.snackBar \notin {"updated successfully", "deleted successfully"}

\* C27: in every CRUD view a completed update returns the form to add mode:
\* the save that follows it, no edit dialog having been opened in between,
\* creates a record and does not update the record edited before.
C27_SaveAfterUpdateCreates ==
    [][ (/\ last.op = "save" /\ last.mode = "update"
         /\ last.res.status = 200
         /\ last'.op = "save" /\ last'.mode # "invalid")
        => (/\ last'.mode = "create"
            /\ last'.req.method = "POST") ]_vars

\* C28: saving an edit of a stored goal or budget leaves the id, the userId
\* and the createdAt of the record as they were.
C28_EditKeepsIdOwnerAndCreation ==
    [][ (/\ last'.op = "save" /\ last'.mode = "update"
         /\ last'.entity \in {"goals", "budgets"}
         /\ findIndex(db[last'.entity], last'.id) # 0)
        => LET index == findIndex(db[last'.entity], last'.id)
               before == db[last'.entity][index]
               after == db'[last'.entity][index]
           IN  /\ after.id = before.id
               /\ after.userId = before.userId
               /\ after.createdAt = before.createdAt ]_vars

=============================================================================
